---------------------------- MODULE Spec2Model ----------------------------
(***************************************************************************)
(* Model of clemitui: the streaming TextBuffer (src/src/text_buffer.rs),   *)
(* the formatters (src/src/format.rs) and the logging flag and sink        *)
(* registry (src/src/logging.rs).                                          *)
(*                                                                         *)
(* Strings are sequences of one-character strings.  A character of the     *)
(* formatter's input carries its UTF-8 byte length through ByteLen.        *)
(***************************************************************************)
EXTENDS Integers, Sequences, FiniteSets, TLC

VARIABLES
    alive,          \* a TextBuffer value exists
    panic,          \* None, or Some(message) once a panic has unwound the caller
    text,           \* TextBuffer.text
    width,          \* TextBuffer.width : Option<usize>
    termWidth,      \* what termimad::terminal_size() reports now (0: not a terminal)
    termAtNew,      \* history: termWidth when the buffer was constructed
    frags,          \* history: fragments pushed since the last flush, in push order
    flushedFrags,   \* history: the fragments that were pending when the last operation (a flush) ran
    lastOp,         \* the operation that produced this state
    lastArg,        \* its integer argument, if it has one
    flushResult,    \* return value of the last operation when it is flush
    isEmptyResult,  \* return value of the last operation when it is is_empty
    detectCalls,    \* number of calls of detect_terminal_width made by the last operation
    renderCalls,    \* the render_markdown calls made by the last operation: <<[text, width]>>
    fmtTool,        \* format_tool_args: tool_name
    fmtArgs,        \* format_tool_args: args, a JSON value
    fmtOut,         \* format_tool_args: the String returned, once it has returned
    fmtDone,        \* format_tool_args has been called on the input
    fmtGiven,       \* history: the entries of args in the order the caller gave them
    fmtFn,          \* the formatter applied to (fmtTool, fmtArgs), "none" before the call
    colorOn,        \* whether the colored crate emits escape sequences
    evtFn,          \* the event formatter applied, "none" before the call
    evtIn,          \* its arguments
    evtOut,         \* the String it returned
    LOGGING_DISABLED, \* the static AtomicBool of logging.rs
    OUTPUT_SINK,    \* the value inside the static RwLock: None or Some(sink)
    readers,        \* the threads that hold a read guard of OUTPUT_SINK
    stack,          \* per thread, the frames of its logging calls in progress, innermost last
    sinkCalls,      \* history: the calls the sinks have received, in order
    nCalls,         \* number of logging calls begun
    lastFlagOp,     \* history: the enable_logging / disable_logging call completed last
    installed,      \* history: what the completed set_output_sink / reset_output_sink calls installed, in order
    isEnabledResult \* return value of the last is_logging_enabled call

vars == <<alive, panic, text, width, termWidth, termAtNew, frags, flushedFrags,
          lastOp, lastArg, flushResult, isEmptyResult, detectCalls, renderCalls,
          fmtTool, fmtArgs, fmtOut, fmtDone, fmtGiven, fmtFn, colorOn,
          evtFn, evtIn, evtOut,
          LOGGING_DISABLED, OUTPUT_SINK, readers, stack, sinkCalls, nCalls,
          lastFlagOp, installed, isEnabledResult>>

bufVars == <<alive, panic, text, width, termWidth, termAtNew, frags, flushedFrags,
             lastOp, lastArg, flushResult, isEmptyResult, detectCalls, renderCalls>>

evtVars == <<evtFn, evtIn, evtOut>>

logVars == <<LOGGING_DISABLED, OUTPUT_SINK, readers, stack, sinkCalls, nCalls,
             lastFlagOp, installed, isEnabledResult>>

fmtVars == <<fmtTool, fmtArgs, fmtOut, fmtDone, fmtGiven, fmtFn, colorOn, evtVars, logVars>>

----------------------------------------------------------------------------
(* Bounds *)

MaxLen == 4         \* longest pending text, in characters
MaxFragLen == 2     \* longest fragment of one push
MaxFrags == 2       \* most pushes between two flushes
MaxWidth == 2       \* largest argument of with_width
MaxTerm == 2        \* largest terminal width reported
MaxAscii == 83      \* most one-byte characters in a string argument
MaxWide == 42       \* most two-byte characters in a string argument
MaxBytes == 84      \* longest string argument, in bytes
MaxEntries == 3     \* most entries of an argument object
MaxMicros == 1100   \* durations of 0..MaxMicros microseconds are drawn
MaxMillis == 1500   \* and durations of 0..MaxMillis whole milliseconds
MaxPct == 10000     \* largest percentage drawn, in hundredths of a percent
MaxDelayMillis == 2000  \* longest retry delay drawn millisecond by millisecond
MaxDelaySecs == 12      \* longest retry delay drawn in whole seconds
MaxAttempts == 2        \* largest attempt number and attempt limit
MaxRun == 9             \* longest run of one character in a JSON string
MaxCalls == 3       \* most calls that take the lock of the registry, over all threads
MaxDepth == 2       \* deepest nesting of logging calls: a sink's emit may call back once

----------------------------------------------------------------------------
(* Option<T> *)

None == <<>>

Some(x) == <<x>>

----------------------------------------------------------------------------
(* Characters and strings *)

NL == "\n"

SP == " "

Alphabet == {"a", SP, NL}

RECURSIVE StringsUpTo(_)
StringsUpTo(n) ==
    IF n = 0 THEN {<<>>}
    ELSE LET shorter == StringsUpTo(n - 1)
         IN  shorter \cup {Append(s, c) : s \in {t \in shorter : Len(t) = n - 1}, c \in Alphabet}

Fragments == StringsUpTo(MaxFragLen)

RECURSIVE Concat(_)
Concat(ss) == IF ss = <<>> THEN <<>> ELSE Head(ss) \o Concat(Tail(ss))

EndsWith(s, suffix) ==
    /\ Len(s) >= Len(suffix)
    /\ SubSeq(s, Len(s) - Len(suffix) + 1, Len(s)) = suffix

----------------------------------------------------------------------------
(* Markdown rendering: text_buffer.rs, lines 23-37 *)

DEFAULT_WIDTH == 120

detect_terminal_width_raw(tw) == tw

\* detect_terminal_width(), with tw the width termimad::terminal_size() reports.
detect_terminal_width(tw) == IF tw = 0 THEN DEFAULT_WIDTH ELSE tw

\* The segments of s between newlines: k newlines give k + 1 segments.
RECURSIVE SplitNL(_)
SplitNL(s) ==
    IF \A i \in 1..Len(s) : s[i] # NL THEN <<s>>
    ELSE LET p == CHOOSE i \in 1..Len(s) : s[i] = NL /\ \A j \in 1..(i - 1) : s[j] # NL
         IN  <<SubSeq(s, 1, p - 1)>> \o SplitNL(SubSeq(s, p + 1, Len(s)))

\* The lines the renderer parses (str::lines): a final empty segment is no line.
Lines(s) ==
    LET segs == SplitNL(s)
    IN  IF segs[Len(segs)] = <<>> THEN SubSeq(segs, 1, Len(segs) - 1) ELSE segs

\* One parsed line wrapped to w columns.
RECURSIVE Wrap(_, _)
Wrap(line, w) ==
    IF w = 0 \/ Len(line) <= w THEN <<line>>
    ELSE <<SubSeq(line, 1, w)>> \o Wrap(SubSeq(line, w + 1, Len(line)), w)

\* render_markdown(text, width) on unstyled text: FmtText's Display writes every
\* wrapped line followed by a newline; characters are preserved.
render_markdown(t, w) ==
    LET ls == Lines(t)
        out == [i \in 1..Len(ls) |-> Concat([j \in 1..Len(Wrap(ls[i], w)) |-> Wrap(ls[i], w)[j] \o <<NL>>])]
    IN  Concat(out)

trim_end_once(s, c) ==
    IF Len(s) > 0 /\ s[Len(s)] = c THEN SubSeq(s, 1, Len(s) - 1) ELSE s

\* str::trim_end_matches(c)
RECURSIVE trim_end_matches(_, _)
trim_end_matches(s, c) ==
    IF Len(s) > 0 /\ s[Len(s)] = c THEN trim_end_matches(SubSeq(s, 1, Len(s) - 1), c) ELSE s

----------------------------------------------------------------------------
(* TextBuffer: text_buffer.rs, lines 70-155 *)

NoPanic == None

Running == panic = NoPanic

\* What an operation that is not flush / is_empty leaves in the observation variables.
NoReturn ==
    /\ flushResult' = None
    /\ isEmptyResult' = None
    /\ detectCalls' = 0
    /\ renderCalls' = <<>>
    /\ flushedFrags' = <<>>

\* TextBuffer::new()
New ==
    /\ Running /\ ~alive
    /\ alive' = TRUE
    /\ text' = <<>>
    /\ width' = None
    /\ termAtNew' = termWidth
    /\ frags' = <<>>
    /\ lastOp' = "new"
    /\ lastArg' = None
    /\ NoReturn
    /\ UNCHANGED <<panic, termWidth, fmtVars>>

\* <TextBuffer as Default>::default() calls new()
Default ==
    /\ Running /\ ~alive
    /\ alive' = TRUE
    /\ text' = <<>>
    /\ width' = None
    /\ termAtNew' = termWidth
    /\ frags' = <<>>
    /\ lastOp' = "default"
    /\ lastArg' = None
    /\ NoReturn
    /\ UNCHANGED <<panic, termWidth, fmtVars>>

\* The width field with_width(w) stores once its assertion has passed.
with_width_field(w) == Some(w)

with_width_unchecked(w) == TRUE

\* The assertion of with_width(w): assert!(width > 0, "width must be positive")
with_width_assert(w) == w > 0

\* TextBuffer::with_width(w)
WithWidth(w) ==
    /\ Running /\ ~alive
    /\ lastOp' = "with_width"
    /\ lastArg' = Some(w)
    /\ IF with_width_assert(w)
       THEN /\ alive' = TRUE
            /\ text' = <<>>
            /\ width' = with_width_field(w)
            /\ termAtNew' = termWidth
            /\ UNCHANGED panic
       ELSE /\ panic' = Some("width must be positive")
            /\ UNCHANGED <<alive, text, width, termAtNew>>
    /\ frags' = <<>>
    /\ NoReturn
    /\ UNCHANGED <<termWidth, fmtVars>>

push_overwrite(t, f) == f

\* String::push_str
push_str(t, f) == t \o f

\* TextBuffer::push(fragment)
Push(f) ==
    /\ Running /\ alive
    /\ Len(text) + Len(f) <= MaxLen
    /\ Len(frags) < MaxFrags
    /\ text' = push_str(text, f)
    /\ frags' = Append(frags, f)
    /\ lastOp' = "push"
    /\ lastArg' = None
    /\ NoReturn
    /\ UNCHANGED <<alive, panic, width, termWidth, termAtNew, fmtVars>>

ResolveWidthAtNew(wd, tw, atNew) == IF wd # None THEN wd[1] ELSE detect_terminal_width(atNew)

\* The width flush resolves: self.width.unwrap_or_else(detect_terminal_width),
\* with tw the terminal width now; atNew, the width at construction, is not read.
ResolveWidth(wd, tw, atNew) == IF wd # None THEN wd[1] ELSE detect_terminal_width(tw)

\* The value flush returns for the rendered text.
Normalize(rendered) ==
    LET trimmed == trim_end_matches(rendered, NL)
    IN  IF trimmed = <<>> THEN None ELSE Some(trimmed \o <<NL, NL>>)

TextKeptOnNone(taken, result) == IF result = None THEN taken ELSE <<>>

\* The text std::mem::take leaves in the buffer, whatever `taken` renders to.
TextAfterTake(taken, result) == <<>>

mem_take_tail(t) == Tail(t)

\* The value std::mem::take(&mut self.text) returns: the whole pending text.
mem_take(t) == t

flush_always_renders(t) == FALSE

\* The early return of flush: self.text.is_empty()
flush_early_return(t) == Len(t) = 0

\* TextBuffer::flush()
Flush ==
    /\ Running /\ alive
    /\ lastOp' = "flush"
    /\ lastArg' = None
    /\ isEmptyResult' = None
    /\ IF flush_early_return(text)
       THEN /\ flushResult' = None
            /\ detectCalls' = 0
            /\ renderCalls' = <<>>
            /\ flushedFrags' = frags
            /\ UNCHANGED <<text, frags>>
       ELSE LET taken == mem_take(text)
                w == ResolveWidth(width, termWidth, termAtNew)
                rendered == render_markdown(taken, w)
                result == Normalize(rendered)
            IN  /\ text' = TextAfterTake(taken, result)
                /\ detectCalls' = IF width = None THEN 1 ELSE 0
                /\ renderCalls' = <<[text |-> taken, width |-> w]>>
                /\ flushResult' = result
                /\ flushedFrags' = frags
                /\ frags' = <<>>
    /\ UNCHANGED <<alive, panic, width, termWidth, termAtNew, fmtVars>>

is_blank(t) == \A i \in 1..Len(t) : t[i] \in {SP, NL}

\* String::is_empty
is_empty(t) == Len(t) = 0

\* TextBuffer::is_empty()
IsEmpty ==
    /\ Running /\ alive
    /\ isEmptyResult' = Some(is_empty(text))
    /\ lastOp' = "is_empty"
    /\ lastArg' = None
    /\ flushResult' = None
    /\ detectCalls' = 0
    /\ renderCalls' = <<>>
    /\ flushedFrags' = <<>>
    /\ UNCHANGED <<alive, panic, text, width, termWidth, termAtNew, frags, fmtVars>>

\* The terminal is resized (or output is redirected: width 0) by the environment.
Resize(tw) ==
    /\ Running
    /\ tw # termWidth
    /\ termWidth' = tw
    /\ lastOp' = "resize"
    /\ lastArg' = None
    /\ NoReturn
    /\ UNCHANGED <<alive, panic, text, width, termAtNew, frags, fmtVars>>

----------------------------------------------------------------------------
(* format_tool_args: format.rs, lines 27-92 *)

\* A JSON value is [kind, val]: "string" holds its characters, "number" and
\* "bool" their value in a 1-tuple, "null" nothing, "array" its items and
\* "object" its entries <<key, value>> in the iteration order of the map.
JString(cs) == [kind |-> "string", val |-> cs]

JNull == [kind |-> "null", val |-> <<>>]

JObject(entries) == [kind |-> "object", val |-> entries]

JNumber(n) == [kind |-> "number", val |-> <<n>>]

JBool(b) == [kind |-> "bool", val |-> <<b>>]

JArray(items) == [kind |-> "array", val |-> items]

\* "U2" stands for one character encoded in two bytes of UTF-8, "U3" in three.
ByteLen(c) == IF c = "U2" THEN 2 ELSE IF c = "U3" THEN 3 ELSE 1

\* str::len: the length in bytes
RECURSIVE len(_)
len(cs) == IF cs = <<>> THEN 0 ELSE ByteLen(Head(cs)) + len(Tail(cs))

replace_nothing(cs) == cs

\* str::replace('\n', " ")
replace_newline(cs) == [i \in 1..Len(cs) |-> IF cs[i] = NL THEN SP ELSE cs[i]]

\* &cs[..n]: Some(prefix of n bytes), or None (panic) when byte n is inside a character
SliceTo(cs, n) ==
    LET ks == {k \in 0..Len(cs) : len(SubSeq(cs, 1, k)) = n}
    IN  IF ks = {} THEN None ELSE Some(SubSeq(cs, 1, CHOOSE k \in ks : TRUE))

MAX_ARG_DISPLAY_LEN == 80

Q == "\""

Dots == <<".", ".", ".">>

FilteredOldStringOnly(tool_name, k) ==
    \/ tool_name = "edit" /\ k = "old_string"
    \/ tool_name = "todo_write" /\ k = "todos"
    \/ tool_name = "ask_user" /\ (k = "question" \/ k = "options")

\* The (tool_name, key) pairs format_tool_args skips.
Filtered(tool_name, k) ==
    \/ tool_name = "edit" /\ (k = "old_string" \/ k = "new_string")
    \/ tool_name = "todo_write" /\ k = "todos"
    \/ tool_name = "ask_user" /\ (k = "question" \/ k = "options")

\* The Value::String arm: Some(val_str), or None when the slice panics.
StringArm(cs) ==
    LET trimmed == replace_newline(cs)
    IN  IF len(trimmed) > MAX_ARG_DISPLAY_LEN
        THEN LET cut == SliceTo(trimmed, MAX_ARG_DISPLAY_LEN - 3)
             IN  IF cut = None THEN None ELSE Some(<<Q>> \o cut[1] \o Dots \o <<Q>>)
        ELSE Some(<<Q>> \o trimmed \o <<Q>>)

ValStrExpanding(v) ==
    CASE v.kind = "string" -> StringArm(v.val)
      [] v.kind = "number" -> Some(<<ToString(v.val[1])>>)
      [] v.kind = "bool" -> Some(<<IF v.val[1] THEN "true" ELSE "false">>)
      [] v.kind = "null" -> Some(<<"n", "u", "l", "l">>)
      [] v.kind = "array" -> Some(<<"[">> \o Dots \o <<"]">>)
      [] OTHER -> Some(Dots)

\* val_str for one value: Some(text), or None when computing it panics.
ValStr(v) ==
    CASE v.kind = "string" -> StringArm(v.val)
      [] v.kind = "number" -> Some(<<ToString(v.val[1])>>)
      [] v.kind = "bool" -> Some(<<IF v.val[1] THEN "true" ELSE "false">>)
      [] v.kind = "null" -> Some(<<"n", "u", "l", "l">>)
      [] OTHER -> Some(Dots)

\* The parts vector after the loop over entries es: Some(parts), or None when
\* an entry panicked.
RECURSIVE Parts(_, _)
Parts(tool_name, es) ==
    IF es = <<>> THEN Some(<<>>)
    ELSE LET k == Head(es)[1]
             v == Head(es)[2]
             rest == Parts(tool_name, Tail(es))
         IN  IF Filtered(tool_name, k) THEN rest
             ELSE IF ValStr(v) = None THEN None
             ELSE IF rest = None THEN None
             ELSE Some(<<<<k, "=">> \o ValStr(v)[1]>> \o rest[1])

\* parts.join(" ")
RECURSIVE join(_, _)
join(parts, sep) ==
    IF parts = <<>> THEN <<>>
    ELSE IF Len(parts) = 1 THEN parts[1]
    ELSE parts[1] \o sep \o join(Tail(parts), sep)

format_tool_args_untrimmed(tool_name, args) ==
    IF args.kind # "object" THEN Some(<<>>)
    ELSE LET parts == Parts(tool_name, args.val)
         IN  IF parts = None THEN None
             ELSE Some(join(parts[1], <<SP>>) \o <<SP>>)

\* format_tool_args(tool_name, args): Some(the String returned), or None when
\* the call panics.  A key is one token of the output.
format_tool_args(tool_name, args) ==
    IF args.kind # "object" THEN Some(<<>>)
    ELSE LET parts == Parts(tool_name, args.val)
         IN  IF parts = None THEN None
             ELSE IF parts[1] = <<>> THEN Some(<<>>)
             ELSE Some(join(parts[1], <<SP>>) \o <<SP>>)

\* A call of format_tool_args on the input drawn by the initial predicate.
FormatToolArgs ==
    /\ Running /\ ~fmtDone
    /\ fmtDone' = TRUE
    /\ fmtFn' = "format_tool_args"
    /\ LET r == format_tool_args(fmtTool, fmtArgs)
       IN  IF r = None
           THEN /\ panic' = Some("byte index is not a char boundary")
                /\ UNCHANGED fmtOut
           ELSE /\ fmtOut' = r[1]
                /\ UNCHANGED panic
    /\ UNCHANGED <<alive, text, width, termWidth, termAtNew, frags, flushedFrags,
                   lastOp, lastArg, flushResult, isEmptyResult, detectCalls, renderCalls,
                   fmtTool, fmtArgs, fmtGiven, colorOn, evtVars, logVars>>

Rep(c, n) == [i \in 1..n |-> c]

\* String arguments: an optional newline, then one-byte and two-byte characters.
StringInputs ==
    LET Shapes == {<<p, n, m>> \in (0..1) \X (0..MaxAscii) \X (0..MaxWide) : p + n + 2 * m <= MaxBytes}
    IN  {Rep(NL, sh[1]) \o Rep("a", sh[2]) \o Rep("U2", sh[3]) : sh \in Shapes}

ToolNames == {"test", "edit"}

ArgKeys == {"s", "old_string"}

Threads == {"t1", "t2"}

\* The statics of logging.rs as the program starts, no call in progress.
LogIdle ==
    /\ LOGGING_DISABLED = FALSE
    /\ OUTPUT_SINK = None
    /\ readers = {}
    /\ stack = [t \in Threads |-> <<>>]
    /\ sinkCalls = <<>>
    /\ nCalls = 0
    /\ lastFlagOp = "none"
    /\ installed = <<>>
    /\ isEnabledResult = None

EvtIdle ==
    /\ evtFn = "none"
    /\ evtIn = <<>>
    /\ evtOut = <<>>

BufIdle ==
    /\ alive = FALSE
    /\ panic = NoPanic
    /\ text = <<>>
    /\ width = None
    /\ termWidth = 0
    /\ termAtNew = 0
    /\ frags = <<>>
    /\ flushedFrags = <<>>
    /\ lastOp = "init"
    /\ lastArg = None
    /\ flushResult = None
    /\ isEmptyResult = None
    /\ detectCalls = 0
    /\ renderCalls = <<>>

InitFmt ==
    /\ BufIdle
    /\ fmtTool \in ToolNames
    /\ fmtArgs \in {JObject(<<<<k, JString(cs)>>>>) : k \in ArgKeys, cs \in StringInputs}
    /\ fmtOut = <<>>
    /\ fmtDone = FALSE
    /\ fmtGiven = fmtArgs.val
    /\ fmtFn = "none"
    /\ colorOn = FALSE
    /\ EvtIdle
    /\ LogIdle

NextFmt == FormatToolArgs

SpecFmt == InitFmt /\ [][NextFmt]_vars

----------------------------------------------------------------------------
(* Argument objects and format_tool_executing: format.rs, lines 50-116 *)

\* The argument names used, in ascending (byte-wise) order.
Keys == <<"file_path", "new_string", "old_string", "options", "question", "todos">>

KeyRank(k) == CHOOSE i \in 1..Len(Keys) : Keys[i] = k

map_push(entries, e) == Append(entries, e)

\* serde_json::Map::insert on the default (BTreeMap) map: entries stay in
\* ascending key order and an existing key has its value replaced.
RECURSIVE map_insert(_, _)
map_insert(entries, e) ==
    IF entries = <<>> THEN <<e>>
    ELSE IF Head(entries)[1] = e[1] THEN <<e>> \o Tail(entries)
    ELSE IF KeyRank(e[1]) < KeyRank(Head(entries)[1]) THEN <<e>> \o entries
    ELSE <<Head(entries)>> \o map_insert(Tail(entries), e)

\* json!({ k1: v1, k2: v2, ... }): the map built by inserting the entries as given.
RECURSIVE json_object(_)
json_object(given) ==
    IF given = <<>> THEN <<>>
    ELSE map_insert(json_object(SubSeq(given, 1, Len(given) - 1)), given[Len(given)])

\* The escape sequences of the colored crate, one token each.
EscTokens == {"ESC[36m", "ESC[33m", "ESC[93m", "ESC[1;91m", "ESC[0m"}

\* s.cyan(), s.yellow(), s.bright_red().bold(): s between the style's escape
\* sequence and the reset sequence when colouring is on, s itself when it is off.
Styled(on, code, s) == IF on THEN <<code>> \o s \o <<"ESC[0m">> ELSE s

\* "box-top" stands for the two characters U+250C U+2500, "box-bottom" for U+2514 U+2500.
BoxTop == "box-top"

BoxBottom == "box-bottom"

format_tool_executing_println(name, args, on) ==
    LET args_str == format_tool_args(name, args)
    IN  IF args_str = None THEN None
        ELSE Some(<<BoxTop, SP>> \o Styled(on, "ESC[36m", <<name>>) \o <<SP>> \o args_str[1] \o <<NL, NL>>)

\* format_tool_executing(name, args): Some(line), or None when format_tool_args panics.
format_tool_executing(name, args, on) ==
    LET args_str == format_tool_args(name, args)
    IN  IF args_str = None THEN None
        ELSE Some(<<BoxTop, SP>> \o Styled(on, "ESC[36m", <<name>>) \o <<SP>> \o args_str[1] \o <<NL>>)

\* A call of format_tool_executing on the input drawn by the initial predicate.
FormatToolExecuting ==
    /\ Running /\ ~fmtDone
    /\ fmtDone' = TRUE
    /\ fmtFn' = "format_tool_executing"
    /\ \E on \in BOOLEAN :
        /\ colorOn' = on
        /\ LET r == format_tool_executing(fmtTool, fmtArgs, on)
           IN  IF r = None
               THEN /\ panic' = Some("byte index is not a char boundary")
                    /\ UNCHANGED fmtOut
               ELSE /\ fmtOut' = r[1]
                    /\ UNCHANGED panic
    /\ UNCHANGED <<alive, text, width, termWidth, termAtNew, frags, flushedFrags,
                   lastOp, lastArg, flushResult, isEmptyResult, detectCalls, renderCalls,
                   fmtTool, fmtArgs, fmtGiven, evtVars, logVars>>

\* A string of 41 two-byte characters: 82 bytes.
LongWide == Rep("U2", 41)

\* The values an argument takes.
ArgValues ==
    {JString(<<"b", NL>>), JString(LongWide), JNumber(42), JBool(TRUE), JNull,
     JArray(<<JNumber(1)>>), JObject(<<<<"a", JNumber(1)>>>>)}

\* The values drawn for key k: every kind for file_path, three kinds for the others.
ValuesFor(k) ==
    IF k = "file_path" THEN ArgValues
    ELSE {JString(<<"b", NL>>), JNull, JArray(<<JNumber(1)>>)}

ArgTools == {"test", "edit", "todo_write", "ask_user"}

\* The sequence s rotated left by r places.
Rotate(s, r) == [i \in 1..Len(s) |-> s[((i - 1 + r) % Len(s)) + 1]]

\* The ascending sequence of the elements of the set of ranks R.
RECURSIVE Ascending(_)
Ascending(R) ==
    IF R = {} THEN <<>>
    ELSE LET m == CHOOSE x \in R : \A y \in R : x <= y
         IN  <<m>> \o Ascending(R \ {m})

\* The ways a caller writes down an object of at most MaxEntries entries:
\* distinct keys, in ascending order or a rotation of it, each with a value.
GivenObjects ==
    LET RankSets == {R \in SUBSET (1..Len(Keys)) : Cardinality(R) <= MaxEntries}
        KeySeqs == UNION {{Rotate(Ascending(R), r) : r \in 0..(IF R = {} THEN 0 ELSE Cardinality(R) - 1)} : R \in RankSets}
        ValSeqs(ks) == {vs \in [1..Len(ks) -> ArgValues] : \A i \in 1..Len(ks) : vs[i] \in ValuesFor(Keys[ks[i]])}
    IN  UNION {{[i \in 1..Len(ks) |-> <<Keys[ks[i]], vs[i]>>] : vs \in ValSeqs(ks)} : ks \in KeySeqs}

\* Arguments that are not objects.
NonObjects == {JNull, JString(<<"a">>), JNumber(42), JArray(<<JNumber(1)>>)}

InitArgs ==
    /\ BufIdle
    /\ EvtIdle
    /\ LogIdle
    /\ fmtTool \in ArgTools
    /\ \/ /\ fmtGiven \in GivenObjects
          /\ fmtArgs = JObject(json_object(fmtGiven))
       \/ /\ fmtGiven = <<>>
          /\ fmtArgs \in NonObjects
    /\ fmtOut = <<>>
    /\ fmtDone = FALSE
    /\ fmtFn = "none"
    /\ colorOn = FALSE

NextArgs ==
    \/ FormatToolArgs
    \/ FormatToolExecuting

SpecArgs == InitArgs /\ [][NextArgs]_vars

----------------------------------------------------------------------------
(* Event formatters: format.rs, lines 140-192 *)

\* The decimal digits of n >= 0.
RECURSIVE Digits(_)
Digits(n) == IF n < 10 THEN <<ToString(n)>> ELSE Digits(n \div 10) \o <<ToString(n % 10)>>

RECURSIVE Pow10(_)
Pow10(k) == IF k = 0 THEN 1 ELSE 10 * Pow10(k - 1)

\* n / d rounded to the nearest integer.  A float is formatted from its exact
\* binary value, so that of a decimal tie lies just above or just below the
\* tie: tieUp says which.
RoundDiv(n, d, tieUp) ==
    LET q == n \div d
        r == n % d
    IN  IF 2 * r > d THEN q + 1
        ELSE IF 2 * r < d THEN q
        ELSE IF tieUp THEN q + 1 ELSE q

\* format!("{:.places}", x) for x = n / 10^places: integer part, ".", places digits.
Fixed(n, places) ==
    LET frac == Digits(n % Pow10(places))
    IN  Digits(n \div Pow10(places)) \o <<".">> \o Rep("0", places - Len(frac)) \o frac

DurationStrInclusive(micros, tieUp) ==
    IF micros <= 1000
    THEN Fixed(RoundDiv(micros, 1000, tieUp), 3) \o <<"s">>
    ELSE Fixed(RoundDiv(micros, 10000, tieUp), 2) \o <<"s">>

\* duration_str of format_tool_result for a duration of micros microseconds:
\* as_secs_f32() < 0.001 exactly when micros < 1000.
DurationStr(micros, tieUp) ==
    IF micros < 1000
    THEN Fixed(RoundDiv(micros, 1000, tieUp), 3) \o <<"s">>
    ELSE Fixed(RoundDiv(micros, 10000, tieUp), 2) \o <<"s">>

ErrorText == <<SP, "E", "R", "R", "O", "R">>

format_tool_result_newline(name, micros, tokens, has_error, on, tieUp) ==
    <<BoxBottom, SP>> \o Styled(on, "ESC[36m", <<name>>) \o <<SP>>
        \o Styled(on, "ESC[33m", DurationStr(micros, tieUp))
        \o <<SP, "~">> \o Digits(tokens) \o <<SP, "t", "o", "k">>
        \o (IF has_error THEN <<NL>> \o Styled(on, "ESC[1;91m", Tail(ErrorText)) ELSE <<>>)

\* format_tool_result(name, duration, estimated_tokens, has_error)
format_tool_result(name, micros, tokens, has_error, on, tieUp) ==
    LET error_suffix == IF has_error THEN Styled(on, "ESC[1;91m", ErrorText) ELSE <<>>
    IN  <<BoxBottom, SP>> \o Styled(on, "ESC[36m", <<name>>) \o <<SP>>
            \o Styled(on, "ESC[33m", DurationStr(micros, tieUp))
            \o <<SP, "~">> \o Digits(tokens) \o <<SP, "t", "o", "k">> \o error_suffix

\* The durations drawn, in microseconds.
Durations == (0..MaxMicros) \cup {1000 * m : m \in 0..MaxMillis}

TokenCounts == {0, 25}

\* A call of format_tool_result.
FormatToolResult ==
    /\ Running /\ evtFn = "none"
    /\ \E micros \in Durations, tokens \in TokenCounts, has_error \in BOOLEAN,
          on \in BOOLEAN, tieUp \in BOOLEAN :
        /\ evtFn' = "format_tool_result"
        /\ evtIn' = [name |-> "test", micros |-> micros, tokens |-> tokens,
                     has_error |-> has_error, tieUp |-> tieUp]
        /\ colorOn' = on
        /\ evtOut' = format_tool_result("test", micros, tokens, has_error, on, tieUp)
    /\ UNCHANGED <<bufVars, logVars, fmtTool, fmtArgs, fmtOut, fmtDone, fmtGiven, fmtFn>>

WarningText == "WARNING: Context window at "

ClearText == " Use /clear to reset."

format_context_warning_inclusive(hundredths, tieUp) ==
    <<WarningText>> \o Fixed(RoundDiv(hundredths, 10, tieUp), 1) \o <<"%", ".">>
        \o (IF hundredths >= 9500 THEN <<ClearText>> ELSE <<>>)

\* format_context_warning(percentage) for percentage = hundredths / 100
format_context_warning(hundredths, tieUp) ==
    IF hundredths > 9500
    THEN <<WarningText>> \o Fixed(RoundDiv(hundredths, 10, tieUp), 1) \o <<"%", ".">> \o <<ClearText>>
    ELSE <<WarningText>> \o Fixed(RoundDiv(hundredths, 10, tieUp), 1) \o <<"%", ".">>

\* A call of format_context_warning.
FormatContextWarning ==
    /\ Running /\ evtFn = "none"
    /\ \E hundredths \in 0..MaxPct, tieUp \in BOOLEAN :
        /\ evtFn' = "format_context_warning"
        /\ evtIn' = [hundredths |-> hundredths, tieUp |-> tieUp]
        /\ evtOut' = format_context_warning(hundredths, tieUp)
    /\ UNCHANGED <<bufVars, logVars, fmtTool, fmtArgs, fmtOut, fmtDone, fmtGiven, fmtFn, colorOn>>

\* Duration::as_secs of a duration of millis milliseconds: the whole seconds.
as_secs_rounded(millis) == (millis + 500) \div 1000

as_secs(millis) == millis \div 1000

\* format_retry(attempt, max_attempts, delay, error) for a delay of millis milliseconds
format_retry(attempt, max_attempts, millis, error, on) ==
    <<"[">> \o Styled(on, "ESC[93m", error) \o <<": retrying in ">> \o Digits(as_secs(millis))
        \o <<"s (attempt ">> \o Digits(attempt) \o <<"/">> \o Digits(max_attempts) \o <<")]">>

\* The delays drawn, in milliseconds.
Delays == (0..MaxDelayMillis) \cup {1000 * k : k \in 0..MaxDelaySecs}

RetryReasons == {<<"rate limit exceeded">>, <<>>}

\* A call of format_retry.
FormatRetry ==
    /\ Running /\ evtFn = "none"
    /\ \E attempt \in 0..MaxAttempts, max_attempts \in 0..MaxAttempts, millis \in Delays,
          error \in RetryReasons, on \in BOOLEAN :
        /\ evtFn' = "format_retry"
        /\ evtIn' = [attempt |-> attempt, max_attempts |-> max_attempts,
                     millis |-> millis, error |-> error]
        /\ colorOn' = on
        /\ evtOut' = format_retry(attempt, max_attempts, millis, error, on)
    /\ UNCHANGED <<bufVars, logVars, fmtTool, fmtArgs, fmtOut, fmtDone, fmtGiven, fmtFn>>

\* The text serde_json writes for the characters of a string: a quote, a
\* backslash and a newline are escaped with a backslash, every other character
\* of the model is written as it is (non-ASCII characters are not escaped).
RECURSIVE escape(_)
escape(cs) ==
    IF cs = <<>> THEN <<>>
    ELSE (IF Head(cs) = NL THEN <<"\\", "n">>
          ELSE IF Head(cs) \in {Q, "\\"} THEN <<"\\", Head(cs)>>
          ELSE <<Head(cs)>>) \o escape(Tail(cs))

\* Value::to_string: the compact JSON text of v, as characters.
RECURSIVE to_string(_)
to_string(v) ==
    CASE v.kind = "null" -> <<"n", "u", "l", "l">>
      [] v.kind = "bool" -> IF v.val[1] THEN <<"t", "r", "u", "e">> ELSE <<"f", "a", "l", "s", "e">>
      [] v.kind = "number" -> Digits(v.val[1])
      [] v.kind = "string" -> <<Q>> \o escape(v.val) \o <<Q>>
      [] v.kind = "array" ->
            <<"[">> \o join([i \in 1..Len(v.val) |-> to_string(v.val[i])], <<",">>) \o <<"]">>
      [] v.kind = "object" ->
            <<"{">> \o join([i \in 1..Len(v.val) |->
                               <<Q>> \o escape(v.val[i][1]) \o <<Q, ":">> \o to_string(v.val[i][2])],
                            <<",">>) \o <<"}">>

CHARS_PER_TOKEN == 4

\* estimate_tokens(value): the byte length of the text over CHARS_PER_TOKEN.  The
\* cast to u32 changes nothing for a text shorter than 16 GiB.
estimate_tokens(value) == len(to_string(value)) \div CHARS_PER_TOKEN

\* The strings drawn: runs of one character, and the words of the tests.
TokenStrings ==
    {Rep(c, n) : c \in {"a", "U2", "U3", NL, Q}, n \in 0..MaxRun}
        \cup {<<"h", "e", "l", "l", "o">>, <<"v", "a", "l", "u", "e">>}

\* The JSON values drawn: every kind, strings at depth at most two.
TokenValues ==
    LET Leaves == {JNull, JBool(TRUE), JBool(FALSE), JNumber(0), JNumber(25)}
                      \cup {JString(cs) : cs \in TokenStrings}
    IN  Leaves \cup {JArray(<<>>), JObject(<<>>)}
            \cup {JArray(<<x>>) : x \in Leaves}
            \cup {JArray(<<JNull, x>>) : x \in Leaves}
            \cup {JObject(<<<< <<"k", "e", "y">>, x >>>>) : x \in Leaves}
            \cup {JObject(<<<< <<"a">>, JObject(<<<< <<"b">>, x >>>>) >>>>) : x \in Leaves}

\* A call of estimate_tokens.
EstimateTokens ==
    /\ Running /\ evtFn = "none"
    /\ \E value \in TokenValues :
        /\ evtFn' = "estimate_tokens"
        /\ evtIn' = [value |-> value]
        /\ evtOut' = estimate_tokens(value)
    /\ UNCHANGED <<bufVars, logVars, fmtTool, fmtArgs, fmtOut, fmtDone, fmtGiven, fmtFn, colorOn>>

InitEvt ==
    /\ BufIdle
    /\ fmtTool = "test"
    /\ fmtArgs = JNull
    /\ fmtOut = <<>>
    /\ fmtDone = FALSE
    /\ fmtGiven = <<>>
    /\ fmtFn = "none"
    /\ colorOn = FALSE
    /\ EvtIdle
    /\ LogIdle

NextEvt ==
    \/ FormatToolResult
    \/ FormatContextWarning
    \/ FormatRetry
    \/ EstimateTokens

SpecEvt == InitEvt /\ [][NextEvt]_vars

----------------------------------------------------------------------------
(* Logging: logging.rs.  The flag and the sink registry are statics shared  *)
(* by the threads of the process.  A call that takes more than one step has *)
(* a frame on its thread's stack; a sink's emit or emit_line may call back  *)
(* into the module, which nests a frame above that of the log call.         *)

Sinks == {"s1", "s2"}

LogFns == {"log_event", "log_event_line"}

\* The log calls drawn: each function, with a message of its own.
LogInputs == {<<"log_event", "m1">>, <<"log_event_line", "m2">>}

is_logging_always_enabled(disabled) == TRUE

\* is_logging_enabled(): !LOGGING_DISABLED.load(SeqCst)
is_logging_enabled(disabled) == ~disabled

store_toggled(old) == ~old

\* disable_logging(): the value LOGGING_DISABLED.store(true, SeqCst) leaves
store_true(old) == TRUE

\* enable_logging(): the value LOGGING_DISABLED.store(false, SeqCst) leaves
store_false(old) == FALSE

set_sink_once(old, sink) == IF old = None THEN Some(sink) ELSE old

\* set_output_sink: *guard = Some(sink)
set_sink(old, sink) == Some(sink)

\* reset_output_sink: *guard = None
reset_sink(old) == None

get_output_sink_leak(held, t) == held

\* get_output_sink: the read guard is dropped when the closure returns, before
\* the cloned Option reaches the caller.
get_output_sink_release(held, t) == held \ {t}

after_get_unwrap(sink) == IF sink = None THEN "panic" ELSE "emit"

\* `if let Some(sink) = get_output_sink()`: emit when a sink was read, return otherwise.
after_get(sink) == IF sink = None THEN "ret" ELSE "emit"

method_always_emit(fn) == "emit"

\* log_event calls sink.emit, log_event_line calls sink.emit_line.
method_of(fn) == IF fn = "log_event" THEN "emit" ELSE "emit_line"

emit_targets_both(sink, current) ==
    <<sink>> \o (IF current \in {None, Some(sink)} THEN <<>> ELSE <<current[1]>>)

\* The sinks a log call invokes: the clone it read, whatever the registry holds by now.
emit_targets(sink, current) == <<sink>>

Top(t) == stack[t][Len(stack[t])]

\* Thread t may begin a call: from its own code, or from inside a sink method
\* that has not called back yet.
MayCall(t) ==
    /\ Running
    /\ IF stack[t] = <<>> THEN TRUE
       ELSE Top(t).pc = "in_emit" /\ Len(stack[t]) < MaxDepth

\* The caller's stack once it has made its call: a sink method calls back once.
MarkCaller(stk) == IF stk = <<>> THEN stk ELSE [stk EXCEPT ![Len(stk)].pc = "emit_tail"]

\* The sink the program has installed: that of the registry call completed last.
Installed == IF installed = <<>> THEN None ELSE installed[Len(installed)]

\* A new frame.  sawEnabled, sawDisabled and regDuring are history: what the
\* completed enable / disable calls and the completed set / reset calls have
\* made of the flag and of the registry since the call began.
Frame(fn, arg, pc) ==
    [fn |-> fn, arg |-> arg, pc |-> pc, sink |-> None, id |-> nCalls + 1,
     sawEnabled |-> lastFlagOp # "disable_logging",
     sawDisabled |-> lastFlagOp = "disable_logging",
     regDuring |-> {Installed}]

\* The frames record the flag call and the registry call a step completes.
Observe(stk, flagOp, inst) ==
    [i \in 1..Len(stk) |->
        [stk[i] EXCEPT !.sawEnabled = @ \/ flagOp # "disable_logging",
                       !.sawDisabled = @ \/ flagOp = "disable_logging",
                       !.regDuring = @ \cup {inst}]]

ObserveAll(stks, flagOp, inst) ==
    [u \in Threads |-> Observe(stks[u], flagOp, inst)]

SetTop(t, f) == [stack EXCEPT ![t] = [@ EXCEPT ![Len(@)] = f]]

Pop(t) == [stack EXCEPT ![t] = SubSeq(@, 1, Len(@) - 1)]

\* Thread t enters a function that takes the lock of the registry.
BeginCall(t, frame) ==
    /\ MayCall(t)
    /\ nCalls < MaxCalls
    /\ nCalls' = nCalls + 1
    /\ stack' = [stack EXCEPT ![t] = Append(MarkCaller(@), frame)]

\* What no step of logging.rs touches.
LogUnchanged ==
    UNCHANGED <<alive, text, width, termWidth, termAtNew, frags, flushedFrags,
                lastOp, lastArg, flushResult, isEmptyResult, detectCalls, renderCalls,
                fmtTool, fmtArgs, fmtOut, fmtDone, fmtGiven, fmtFn, colorOn, evtVars>>

\* log_event(m) / log_event_line(m) is entered and loads the flag: it goes on
\* to read the registry, or returns if logging is disabled.
LogCall(t, fn, m) ==
    /\ BeginCall(t, Frame(fn, m, IF is_logging_enabled(LOGGING_DISABLED) THEN "read" ELSE "ret"))
    /\ UNCHANGED <<panic, LOGGING_DISABLED, OUTPUT_SINK, readers, sinkCalls, lastFlagOp, installed, isEnabledResult>>
    /\ LogUnchanged

\* get_output_sink() is called directly.
GetOutputSink(t) ==
    /\ BeginCall(t, Frame("get_output_sink", "-", "read"))
    /\ UNCHANGED <<panic, LOGGING_DISABLED, OUTPUT_SINK, readers, sinkCalls, lastFlagOp, installed, isEnabledResult>>
    /\ LogUnchanged

\* set_output_sink(sink) is called and waits for the write lock.
SetOutputSink(t, sink) ==
    /\ BeginCall(t, Frame("set_output_sink", sink, "write"))
    /\ UNCHANGED <<panic, LOGGING_DISABLED, OUTPUT_SINK, readers, sinkCalls, lastFlagOp, installed, isEnabledResult>>
    /\ LogUnchanged

\* reset_output_sink() is called and waits for the write lock.
ResetOutputSink(t) ==
    /\ BeginCall(t, Frame("reset_output_sink", "-", "write"))
    /\ UNCHANGED <<panic, LOGGING_DISABLED, OUTPUT_SINK, readers, sinkCalls, lastFlagOp, installed, isEnabledResult>>
    /\ LogUnchanged


\* get_output_sink, first half: OUTPUT_SINK.read() succeeds and the Option is cloned.
ReadLock(t) ==
    /\ Running /\ stack[t] # <<>> /\ Top(t).pc = "read"
    /\ readers' = readers \cup {t}
    /\ stack' = SetTop(t, [Top(t) EXCEPT !.sink = OUTPUT_SINK, !.pc = "unlock"])
    /\ UNCHANGED <<panic, LOGGING_DISABLED, OUTPUT_SINK, sinkCalls, nCalls, lastFlagOp, installed, isEnabledResult>>
    /\ LogUnchanged

\* get_output_sink, second half: the guard is dropped and the clone returned;
\* a log call then goes on to the sink, or returns if there is none.
ReadUnlock(t) ==
    /\ Running /\ stack[t] # <<>> /\ Top(t).pc = "unlock"
    /\ readers' = get_output_sink_release(readers, t)
    /\ LET pc == IF Top(t).fn = "get_output_sink" THEN "ret" ELSE after_get(Top(t).sink)
       IN  /\ stack' = SetTop(t, [Top(t) EXCEPT !.pc = pc])
           /\ panic' = IF pc = "panic" THEN Some("called Option::unwrap() on a None value")
                       ELSE panic
    /\ UNCHANGED <<LOGGING_DISABLED, OUTPUT_SINK, sinkCalls, nCalls, lastFlagOp, installed, isEnabledResult>>
    /\ LogUnchanged

\* sink.emit(message) / sink.emit_line(message) is entered: the sink has the message.
Emit(t) ==
    /\ Running /\ stack[t] # <<>> /\ Top(t).pc = "emit"
    /\ LET f == Top(t)
           targets == emit_targets(f.sink[1], OUTPUT_SINK)
       IN  /\ sinkCalls' = sinkCalls \o
                  [i \in 1..Len(targets) |->
                      [sink |-> targets[i], method |-> method_of(f.fn), msg |-> f.arg, call |-> f.id]]
           /\ stack' = SetTop(t, [f EXCEPT !.pc = "in_emit"])
    /\ UNCHANGED <<panic, LOGGING_DISABLED, OUTPUT_SINK, readers, nCalls, lastFlagOp, installed, isEnabledResult>>
    /\ LogUnchanged

\* The sink method returns, and with it the body of the log call.
EmitReturn(t) ==
    /\ Running /\ stack[t] # <<>> /\ Top(t).pc \in {"in_emit", "emit_tail"}
    /\ stack' = SetTop(t, [Top(t) EXCEPT !.pc = "ret"])
    /\ UNCHANGED <<panic, LOGGING_DISABLED, OUTPUT_SINK, readers, sinkCalls, nCalls, lastFlagOp, installed, isEnabledResult>>
    /\ LogUnchanged

\* log_event, log_event_line or get_output_sink returns to its caller.
Return(t) ==
    /\ Running /\ stack[t] # <<>> /\ Top(t).pc = "ret"
    /\ stack' = Pop(t)
    /\ UNCHANGED <<panic, LOGGING_DISABLED, OUTPUT_SINK, readers, sinkCalls, nCalls, lastFlagOp, installed, isEnabledResult>>
    /\ LogUnchanged

\* set_output_sink / reset_output_sink: OUTPUT_SINK.write() succeeds once no
\* guard is held, the value is assigned, the guard dropped and the call returns.
Write(t) ==
    /\ Running /\ stack[t] # <<>> /\ Top(t).pc = "write"
    /\ readers = {}
    /\ OUTPUT_SINK' = IF Top(t).fn = "set_output_sink" THEN set_sink(OUTPUT_SINK, Top(t).arg)
                      ELSE reset_sink(OUTPUT_SINK)
    /\ installed' = Append(installed, IF Top(t).fn = "set_output_sink" THEN Some(Top(t).arg) ELSE None)
    /\ stack' = ObserveAll(Pop(t), lastFlagOp, installed'[Len(installed')])
    /\ UNCHANGED <<panic, LOGGING_DISABLED, readers, sinkCalls, nCalls, lastFlagOp, isEnabledResult>>
    /\ LogUnchanged

\* Thread t may run one of the functions of a single atomic access.
MayAccessFlag(t) ==
    /\ Running
    /\ IF stack[t] = <<>> THEN TRUE ELSE Top(t).pc = "in_emit"

\* disable_logging()
DisableLogging(t) ==
    /\ MayAccessFlag(t)
    /\ LOGGING_DISABLED' = store_true(LOGGING_DISABLED)
    /\ lastFlagOp' = "disable_logging"
    /\ stack' = ObserveAll([stack EXCEPT ![t] = MarkCaller(@)], lastFlagOp', Installed)
    /\ isEnabledResult' = None
    /\ UNCHANGED <<panic, OUTPUT_SINK, readers, sinkCalls, nCalls, installed>>
    /\ LogUnchanged

\* enable_logging()
EnableLogging(t) ==
    /\ MayAccessFlag(t)
    /\ LOGGING_DISABLED' = store_false(LOGGING_DISABLED)
    /\ lastFlagOp' = "enable_logging"
    /\ stack' = ObserveAll([stack EXCEPT ![t] = MarkCaller(@)], lastFlagOp', Installed)
    /\ isEnabledResult' = None
    /\ UNCHANGED <<panic, OUTPUT_SINK, readers, sinkCalls, nCalls, installed>>
    /\ LogUnchanged

\* is_logging_enabled() called directly
IsLoggingEnabled(t) ==
    /\ MayAccessFlag(t)
    /\ isEnabledResult' = Some(is_logging_enabled(LOGGING_DISABLED))
    /\ stack' = [stack EXCEPT ![t] = MarkCaller(@)]
    /\ UNCHANGED <<panic, LOGGING_DISABLED, OUTPUT_SINK, readers, sinkCalls, nCalls, lastFlagOp, installed>>
    /\ LogUnchanged

InitLog ==
    /\ BufIdle
    /\ fmtTool = "test"
    /\ fmtArgs = JNull
    /\ fmtOut = <<>>
    /\ fmtDone = FALSE
    /\ fmtGiven = <<>>
    /\ fmtFn = "none"
    /\ colorOn = FALSE
    /\ EvtIdle
    /\ LogIdle

\* The steps of the calls thread t has in progress.
Step(t) ==
    \/ ReadLock(t)
    \/ ReadUnlock(t)
    \/ Emit(t)
    \/ EmitReturn(t)
    \/ Return(t)
    \/ Write(t)

NextLog ==
    \/ \E t \in Threads, in \in LogInputs : LogCall(t, in[1], in[2])
    \/ \E t \in Threads : GetOutputSink(t)
    \/ \E t \in Threads, sink \in Sinks : SetOutputSink(t, sink)
    \/ \E t \in Threads : ResetOutputSink(t)
    \/ \E t \in Threads : DisableLogging(t)
    \/ \E t \in Threads : EnableLogging(t)
    \/ \E t \in Threads : IsLoggingEnabled(t)
    \/ \E t \in Threads : ReadLock(t)
    \/ \E t \in Threads : ReadUnlock(t)
    \/ \E t \in Threads : Emit(t)
    \/ \E t \in Threads : EmitReturn(t)
    \/ \E t \in Threads : Return(t)
    \/ \E t \in Threads : Write(t)

SpecLog == InitLog /\ [][NextLog]_vars

\* The functions that take the lock of the registry, the flag left enabled.
NextSink ==
    \/ \E t \in Threads, in \in LogInputs : LogCall(t, in[1], in[2])
    \/ \E t \in Threads : GetOutputSink(t)
    \/ \E t \in Threads, sink \in Sinks : SetOutputSink(t, sink)
    \/ \E t \in Threads : ResetOutputSink(t)
    \/ \E t \in Threads : ReadLock(t)
    \/ \E t \in Threads : ReadUnlock(t)
    \/ \E t \in Threads : Emit(t)
    \/ \E t \in Threads : EmitReturn(t)
    \/ \E t \in Threads : Return(t)
    \/ \E t \in Threads : Write(t)

\* Every thread with a call in progress is scheduled again.
SpecSink == InitLog /\ [][NextSink]_vars /\ \A t \in Threads : WF_vars(Step(t))

----------------------------------------------------------------------------
(* Specification of the TextBuffer *)

TermWidths == 0..MaxTerm

FmtIdle ==
    /\ fmtTool = "test"
    /\ fmtArgs = JNull
    /\ fmtOut = <<>>
    /\ fmtDone = FALSE
    /\ fmtGiven = <<>>
    /\ fmtFn = "none"
    /\ colorOn = FALSE
    /\ EvtIdle
    /\ LogIdle

Init ==
    /\ alive = FALSE
    /\ panic = NoPanic
    /\ text = <<>>
    /\ width = None
    /\ termWidth \in TermWidths
    /\ termAtNew = 0
    /\ frags = <<>>
    /\ flushedFrags = <<>>
    /\ lastOp = "init"
    /\ lastArg = None
    /\ flushResult = None
    /\ isEmptyResult = None
    /\ detectCalls = 0
    /\ renderCalls = <<>>
    /\ FmtIdle

Next ==
    \/ New
    \/ Default
    \/ \E w \in 0..MaxWidth : WithWidth(w)
    \/ \E f \in Fragments : Push(f)
    \/ Flush
    \/ IsEmpty
    \/ \E tw \in TermWidths : Resize(tw)

Spec == Init /\ [][Next]_vars

----------------------------------------------------------------------------
(* Properties of TextBuffer *)

Whitespace == {SP, "\t", NL}

\* C1: after a flush, whatever it returned, and right after new(), default() and
\* with_width(w) for w > 0, the pending text is empty and is_empty() is true.
C1_EmptyAfterFlushAndConstruction ==
    (alive /\ lastOp \in {"flush", "new", "default", "with_width"})
        => (text = <<>> /\ is_empty(text))

\* A flush whose rendered text was nothing but newlines has returned None.
C1_Witness ==
    /\ lastOp = "flush"
    /\ renderCalls # <<>>
    /\ flushResult = None
    /\ text = <<>>

\* C2: a Some(s) returned by flush ends with exactly two newlines.
C2_ExactlyTwoTrailingNewlines ==
    (lastOp = "flush" /\ flushResult # None)
        => /\ EndsWith(flushResult[1], <<NL, NL>>)
           /\ ~EndsWith(flushResult[1], <<NL, NL, NL>>)

\* A flush returned Some for a text whose rendered form ends with three newlines.
C2_Witness ==
    /\ lastOp = "flush"
    /\ flushResult # None
    /\ renderCalls # <<>>
    /\ EndsWith(render_markdown(renderCalls[1].text, renderCalls[1].width), <<NL, NL, NL>>)

\* C3: when only spaces, tabs and newlines were pushed since the last flush,
\* flush returns None and leaves the buffer empty.
C3_WhitespaceOnlyFlushesToNone ==
    (lastOp = "flush" /\ \A i \in 1..Len(Concat(flushedFrags)) : Concat(flushedFrags)[i] \in Whitespace)
        => (flushResult = None /\ text = <<>>)

\* C4: flush on an empty buffer returns None, leaves text and width as they were
\* and calls neither detect_terminal_width nor render_markdown.
C4_FlushOfEmptyIsNoop ==
    [][(lastOp' = "flush" /\ text = <<>>)
        => /\ flushResult' = None
           /\ text' = <<>>
           /\ width' = width
           /\ detectCalls' = 0
           /\ renderCalls' = <<>>]_vars

\* A flush of an empty buffer that follows another flush.
C4_Witness ==
    /\ lastOp = "flush"
    /\ renderCalls = <<>>
    /\ flushResult = None
    /\ text = <<>>

\* C5: push appends verbatim and renders nothing; the next flush hands the
\* renderer the concatenation, in push order, of the fragments pushed since the
\* previous flush, so its result is that of flushing the single joined string.
C5_PushAppendsVerbatim ==
    /\ text = Concat(frags)
    /\ lastOp = "push" => (renderCalls = <<>> /\ detectCalls = 0)
    /\ lastOp = "flush" =>
          IF Concat(flushedFrags) = <<>>
          THEN renderCalls = <<>> /\ flushResult = None
          ELSE /\ Len(renderCalls) = 1
               /\ renderCalls[1].text = Concat(flushedFrags)
               /\ flushResult = Normalize(render_markdown(Concat(flushedFrags), renderCalls[1].width))

\* A flush of two different non-empty fragments that returned Some.
C5_Witness ==
    /\ lastOp = "flush"
    /\ Len(flushedFrags) = 2
    /\ \A i \in 1..2 : flushedFrags[i] # <<>>
    /\ flushedFrags[1] # flushedFrags[2]
    /\ flushResult # None

\* C6: is_empty() returns true exactly when the fragments pushed since the last
\* flush (or construction) have total length zero, and it changes nothing.
C6_IsEmptyIffNothingPending ==
    /\ [](lastOp = "is_empty" => isEmptyResult = Some(Len(Concat(frags)) = 0))
    /\ [][lastOp' = "is_empty" => UNCHANGED <<alive, panic, text, width, frags>>]_vars

\* is_empty() returned false on a buffer that holds only whitespace.
C6_Witness ==
    /\ lastOp = "is_empty"
    /\ isEmptyResult = Some(FALSE)
    /\ is_blank(text)

\* C7: with_width(0) panics with "width must be positive" and builds no buffer;
\* with_width(w), w > 0, builds an empty buffer of fixed width exactly w.
C7_WithWidthZeroPanics ==
    /\ lastOp = "with_width" =>
          IF lastArg = Some(0)
          THEN panic = Some("width must be positive") /\ ~alive
          ELSE panic = NoPanic /\ alive /\ text = <<>> /\ width = lastArg
    /\ alive => width # Some(0)

\* with_width(0) has panicked.
C7_Witness ==
    /\ lastOp = "with_width"
    /\ lastArg = Some(0)
    /\ panic # NoPanic
    /\ ~alive

\* C8: the renderer is called with the fixed width of the buffer, else with the
\* detected terminal width, else (detection gives 0) with 120; never with 0.
C8_RenderWidthResolved ==
    \A i \in 1..Len(renderCalls) :
        /\ renderCalls[i].width =
              (IF width # None THEN width[1] ELSE IF termWidth = 0 THEN 120 ELSE termWidth)
        /\ renderCalls[i].width > 0

\* An auto-width buffer was flushed while no terminal width could be detected.
C8_Witness ==
    /\ lastOp = "flush"
    /\ width = None
    /\ termWidth = 0
    /\ Len(renderCalls) = 1
    /\ renderCalls[1].width = 120

\* C9: an auto-width flush renders at the terminal width in force when flush is
\* called, not at one captured earlier; a fixed-width flush ignores the terminal.
C9_WidthReadAtFlush ==
    [][(lastOp' = "flush" /\ text # <<>>)
        => /\ Len(renderCalls') = 1
           /\ width = None => (/\ detectCalls' = 1
                               /\ renderCalls'[1].width = (IF termWidth = 0 THEN 120 ELSE termWidth))
           /\ width # None => (/\ detectCalls' = 0
                               /\ renderCalls'[1].width = width[1])]_vars

\* An auto-width buffer was flushed after the terminal had been resized since
\* its construction.
C9_Witness ==
    /\ lastOp = "flush"
    /\ width = None
    /\ Len(renderCalls) = 1
    /\ termWidth # 0
    /\ termAtNew # 0
    /\ termWidth # termAtNew
    /\ renderCalls[1].width = termWidth

----------------------------------------------------------------------------
(* Properties of format_tool_args *)

\* C10: a string argument of L characters (after newline replacement) is
\* rendered in double quotes unmodified when L <= 80, and as its first 77
\* characters followed by "..." when L >= 81.
C10_TruncationBoundary ==
    (fmtDone /\ ~Filtered(fmtTool, fmtArgs.val[1][1])) =>
        LET k == fmtArgs.val[1][1]
            t == replace_newline(fmtArgs.val[1][2].val)
            shown == IF Len(t) <= 80 THEN t ELSE SubSeq(t, 1, 77) \o Dots
        IN  /\ panic = NoPanic
            /\ fmtOut = <<k, "=", Q>> \o shown \o <<Q, SP>>

\* The filter table of the claims: the (tool, key) pairs that are suppressed.
SuppressTable ==
    {<<"edit", "old_string">>, <<"edit", "new_string">>, <<"todo_write", "todos">>,
     <<"ask_user", "question">>, <<"ask_user", "options">>}

\* The entries of es that the table does not suppress for the tool.
Surviving(tool, es) == SelectSeq(es, LAMBDA e : <<tool, e[1]>> \notin SuppressTable)

\* The output without the escape sequences of the styling.
Strip(out) == SelectSeq(out, LAMBDA t : t \notin EscTokens)

\* C11: format_tool_args leaves no trace of a suppressed entry: its outcome is
\* that of the same object without the suppressed entries, and no suppressed key
\* occurs in the output.
C11_SuppressedEntriesLeaveNoTrace ==
    (fmtFn = "format_tool_args" /\ fmtArgs.kind = "object") =>
        LET expect == format_tool_args(fmtTool, JObject(Surviving(fmtTool, fmtArgs.val)))
        IN  /\ IF expect = None THEN panic # NoPanic
               ELSE panic = NoPanic /\ fmtOut = expect[1]
            /\ \A i \in 1..Len(fmtOut) : <<fmtTool, fmtOut[i]>> \notin SuppressTable

\* edit was formatted with old_string, new_string and file_path: only file_path shows.
C11_Witness ==
    /\ fmtFn = "format_tool_args"
    /\ fmtTool = "edit"
    /\ {fmtGiven[i][1] : i \in 1..Len(fmtGiven)} = {"old_string", "new_string", "file_path"}
    /\ fmtOut = <<"file_path", "=", Q, "b", SP, Q, SP>>

\* C12: format_tool_args and format_tool_executing return a string, without
\* failing, for every tool name and every JSON value.
C12_FormattersAreTotal ==
    fmtFn \in {"format_tool_args", "format_tool_executing"} => panic = NoPanic

\* The text of one surviving entry: key, "=", rendered value.
PartOf(e) == <<e[1], "=">> \o ValStr(e[2])[1]

\* C13: format_tool_args returns "" exactly when args is no object or no entry
\* survives; otherwise the surviving parts, each followed by exactly one space.
C13_EmptyOrJoinedWithTrailingSpace ==
    (fmtFn = "format_tool_args" /\ panic = NoPanic) =>
        LET surv == IF fmtArgs.kind = "object" THEN Surviving(fmtTool, fmtArgs.val) ELSE <<>>
        IN  /\ fmtOut = Concat([i \in 1..Len(surv) |-> PartOf(surv[i]) \o <<SP>>])
            /\ fmtOut = <<>> <=> surv = <<>>

\* Three entries survived and were joined.
C13_Witness ==
    /\ fmtFn = "format_tool_args"
    /\ panic = NoPanic
    /\ fmtTool = "test"
    /\ Len(fmtArgs.val) = 3
    /\ fmtOut # <<>>

\* How the claim renders a value that is not a string.
Literal(v) ==
    CASE v.kind = "number" -> <<ToString(v.val[1])>>
      [] v.kind = "bool" -> <<IF v.val[1] THEN "true" ELSE "false">>
      [] v.kind = "null" -> <<"n", "u", "l", "l">>
      [] v.kind \in {"array", "object"} -> Dots

\* C14: a number, boolean, null, array or object is rendered without quotes as
\* its canonical text, true/false, null, and "..." whatever a composite holds.
C14_NonStringValues ==
    (fmtFn = "format_tool_args" /\ fmtArgs.kind = "object") =>
        LET surv == Surviving(fmtTool, fmtArgs.val)
        IN  (\A i \in 1..Len(surv) : surv[i][2].kind # "string") =>
                /\ panic = NoPanic
                /\ fmtOut = Concat([i \in 1..Len(surv) |-> <<surv[i][1], "=">> \o Literal(surv[i][2]) \o <<SP>>])

\* An array and an object were rendered side by side.
C14_Witness ==
    /\ fmtFn = "format_tool_args"
    /\ fmtTool = "test"
    /\ fmtArgs.kind = "object"
    /\ Len(fmtArgs.val) = 2
    /\ fmtArgs.val[1][2] = JObject(<<<<"a", JNumber(1)>>>>)
    /\ fmtArgs.val[2][2] = JArray(<<JNumber(1)>>)
    /\ fmtOut = <<"file_path", "=">> \o Dots \o <<SP, fmtArgs.val[2][1], "=">> \o Dots \o <<SP>>

\* The key tokens of an output, in the order they occur.
OutKeys(out) == SelectSeq(out, LAMBDA t : \E i \in 1..Len(Keys) : Keys[i] = t)

\* The entries of given in ascending key order.
SortedByKey(given) ==
    LET ranks == Ascending({KeyRank(given[i][1]) : i \in 1..Len(given)})
    IN  [j \in 1..Len(ranks) |-> given[CHOOSE i \in 1..Len(given) : given[i][1] = Keys[ranks[j]]]]

\* C15: the surviving entries come out in ascending key order whatever order
\* the caller gave them in.
C15_AscendingKeyOrder ==
    (fmtFn = "format_tool_args" /\ panic = NoPanic /\ fmtArgs.kind = "object") =>
        LET ks == OutKeys(fmtOut)
            surv == Surviving(fmtTool, SortedByKey(fmtGiven))
        IN  /\ \A i \in 1..(Len(ks) - 1) : KeyRank(ks[i]) < KeyRank(ks[i + 1])
            /\ ks = [i \in 1..Len(surv) |-> surv[i][1]]
            /\ fmtOut = Concat([i \in 1..Len(surv) |-> PartOf(surv[i]) \o <<SP>>])

\* Three entries given in an order that is not ascending were all rendered.
C15_Witness ==
    /\ fmtFn = "format_tool_args"
    /\ panic = NoPanic
    /\ Len(fmtGiven) = 3
    /\ KeyRank(fmtGiven[1][1]) > KeyRank(fmtGiven[3][1])
    /\ Len(OutKeys(fmtOut)) = 3

\* C16: newlines of a string value are replaced by spaces before the length is
\* measured and the text cut: the rendered value holds no newline and is the
\* replaced text, or a prefix of it followed by "...".
C16_NewlinesReplacedFirst ==
    (fmtDone /\ panic = NoPanic /\ ~Filtered(fmtTool, fmtArgs.val[1][1])) =>
        LET cs == fmtArgs.val[1][2].val
            replaced == [i \in 1..Len(cs) |-> IF cs[i] = NL THEN SP ELSE cs[i]]
            body == SubSeq(fmtOut, 4, Len(fmtOut) - 2)
        IN  /\ \A i \in 1..Len(fmtOut) : fmtOut[i] # NL
            /\ SubSeq(fmtOut, 1, 3) = <<fmtArgs.val[1][1], "=", Q>>
            /\ SubSeq(fmtOut, Len(fmtOut) - 1, Len(fmtOut)) = <<Q, SP>>
            /\ \/ body = replaced
               \/ \E n \in 0..Len(replaced) : body = SubSeq(replaced, 1, n) \o Dots

\* A string that starts with a newline was cut.
C16_Witness ==
    /\ fmtDone
    /\ panic = NoPanic
    /\ fmtArgs.val[1][2].val # <<>>
    /\ fmtArgs.val[1][2].val[1] = NL
    /\ Len(fmtOut) = 3 + 77 + 3 + 2
    /\ fmtOut[4] = SP

\* C17: format_tool_executing(name, args) is, styling aside, box-top, a space,
\* the name, a space, format_tool_args(name, args) and one newline; it ends
\* with exactly one newline also when the arguments render empty.
C17_ExecutingLine ==
    fmtFn = "format_tool_executing" =>
        LET args_str == format_tool_args(fmtTool, fmtArgs)
        IN  IF args_str = None THEN panic # NoPanic
            ELSE /\ panic = NoPanic
                 /\ Strip(fmtOut) = <<BoxTop, SP, fmtTool, SP>> \o args_str[1] \o <<NL>>
                 /\ fmtOut[Len(fmtOut)] = NL
                 /\ fmtOut[Len(fmtOut) - 1] # NL
                 /\ args_str[1] = <<>> => Strip(fmtOut) = <<BoxTop, SP, fmtTool, SP, NL>>

\* A styled line was produced for arguments that render empty.
C17_Witness ==
    /\ fmtFn = "format_tool_executing"
    /\ colorOn
    /\ fmtTool = "ask_user"
    /\ Len(fmtGiven) = 2
    /\ Strip(fmtOut) = <<BoxTop, SP, "ask_user", SP, NL>>
    /\ fmtOut # Strip(fmtOut)

----------------------------------------------------------------------------
(* Properties of the event formatters *)

\* The number a sequence of decimal digits denotes.
RECURSIVE ParseDigits(_)
ParseDigits(ds) ==
    IF ds = <<>> THEN 0
    ELSE 10 * ParseDigits(SubSeq(ds, 1, Len(ds) - 1))
         + (CHOOSE d \in 0..9 : ToString(d) = ds[Len(ds)])

\* The position of the first token t of s.
IndexOf(s, t) == CHOOSE i \in 1..Len(s) : s[i] = t /\ \A j \in 1..(i - 1) : s[j] # t

\* C18: format_tool_result is, styling aside, box-bottom, name, duration, "~",
\* the token count and "tok", followed by " ERROR" exactly when has_error; it
\* never ends with a newline.
C18_ResultLine ==
    evtFn = "format_tool_result" =>
        LET plain == Strip(evtOut)
            base == <<BoxBottom, SP, evtIn.name, SP>> \o DurationStr(evtIn.micros, evtIn.tieUp)
                        \o <<SP, "~">> \o Digits(evtIn.tokens) \o <<SP, "t", "o", "k">>
        IN  /\ plain = IF evtIn.has_error THEN base \o <<SP, "E", "R", "R", "O", "R">> ELSE base
            /\ EndsWith(plain, <<SP, "E", "R", "R", "O", "R">>) <=> evtIn.has_error
            /\ \A i \in 1..Len(evtOut) : evtOut[i] # NL

\* A styled result line with the ERROR suffix.
C18_Witness ==
    /\ evtFn = "format_tool_result"
    /\ evtIn.has_error
    /\ colorOn
    /\ evtIn.micros = 10000
    /\ evtIn.tokens = 25
    /\ Strip(evtOut) = <<BoxBottom, SP, "test", SP, "0", ".", "0", "1", "s", SP, "~", "2", "5",
                         SP, "t", "o", "k", SP, "E", "R", "R", "O", "R">>

\* C19: the duration is shown in seconds followed by "s", with 3 decimals
\* below one millisecond and 2 decimals otherwise, rounded to the nearest.
C19_DurationPrecision ==
    evtFn = "format_tool_result" =>
        LET plain == Strip(evtOut)
            dot == IndexOf(plain, ".")
            unit == IndexOf(plain, "s")
            whole == ParseDigits(SubSeq(plain, 5, dot - 1))
            frac == SubSeq(plain, dot + 1, unit - 1)
            places == IF evtIn.micros < 1000 THEN 3 ELSE 2
            shown == whole * Pow10(places) + ParseDigits(frac)
            err == shown * Pow10(6 - places) - evtIn.micros
        IN  /\ Len(frac) = places
            /\ 2 * err <= Pow10(6 - places) /\ -2 * err <= Pow10(6 - places)
            /\ evtIn.micros = 100 => SubSeq(plain, 5, unit) = <<"0", ".", "0", "0", "0", "s">>
            /\ evtIn.micros = 20000 => SubSeq(plain, 5, unit) = <<"0", ".", "0", "2", "s">>
            /\ evtIn.micros = 1450000 => SubSeq(plain, 5, unit) = <<"1", ".", "4", "5", "s">>

\* 999 microseconds were shown with three decimals.
C19_Witness ==
    /\ evtFn = "format_tool_result"
    /\ evtIn.micros = 999
    /\ SubSeq(Strip(evtOut), 5, 10) = <<"0", ".", "0", "0", "1", "s">>

\* C20: format_context_warning(p) is "WARNING: Context window at P%." with P
\* p to one decimal, followed by " Use /clear to reset." exactly when p > 95.0.
C20_ContextWarning ==
    evtFn = "format_context_warning" =>
        LET h == evtIn.hundredths
            dot == IndexOf(evtOut, ".")
            pct == IndexOf(evtOut, "%")
            tenths == 10 * ParseDigits(SubSeq(evtOut, 2, dot - 1)) + ParseDigits(SubSeq(evtOut, dot + 1, pct - 1))
            rest == SubSeq(evtOut, pct, Len(evtOut))
        IN  /\ evtOut[1] = "WARNING: Context window at "
            /\ pct = dot + 2
            /\ 10 * tenths - h <= 5 /\ h - 10 * tenths <= 5
            /\ rest = IF h > 9500 THEN <<"%", ".", " Use /clear to reset.">> ELSE <<"%", ".">>
            /\ h = 9500 => Len(evtOut) = pct + 1
            /\ h = 9510 => evtOut[Len(evtOut)] = " Use /clear to reset."

\* 95.0 exactly was formatted, without the suggestion.
C20_Witness ==
    /\ evtFn = "format_context_warning"
    /\ evtIn.hundredths = 9500
    /\ evtOut = <<"WARNING: Context window at ", "9", "5", ".", "0", "%", ".">>

\* C21: format_retry is, styling aside, "[" reason ": retrying in " S "s (attempt "
\* attempt "/" max_attempts ")]", S being the whole seconds of the delay with
\* the sub-second part dropped and no fractional digits.
C21_RetryLine ==
    evtFn = "format_retry" =>
        LET plain == Strip(evtOut)
            n == Len(evtIn.error)
            lead == IndexOf(plain, ": retrying in ")
            unit == IndexOf(plain, "s (attempt ")
            S == SubSeq(plain, lead + 1, unit - 1)
            rest == SubSeq(plain, unit + 1, Len(plain))
        IN  /\ plain[1] = "["
            /\ SubSeq(plain, 2, n + 1) = evtIn.error
            /\ lead = n + 2
            /\ \A i \in 1..Len(S) : S[i] \in {ToString(d) : d \in 0..9}
            /\ S # <<>>
            /\ 1000 * ParseDigits(S) <= evtIn.millis
            /\ evtIn.millis < 1000 * (ParseDigits(S) + 1)
            /\ rest = Digits(evtIn.attempt) \o <<"/">> \o Digits(evtIn.max_attempts) \o <<")]">>

\* A styled retry line for a delay of 1.999 seconds, shown as 1s.
C21_Witness ==
    /\ evtFn = "format_retry"
    /\ colorOn
    /\ evtIn.millis = 999 + 1000
    /\ evtIn.attempt = 1
    /\ evtIn.max_attempts = 2
    /\ Strip(evtOut) = <<"[", "rate limit exceeded", ": retrying in ", "1", "s (attempt ",
                         "1", "/", "2", ")]">>
    /\ evtOut # Strip(evtOut)

\* C22: estimate_tokens(value) is the number of characters of the JSON text of
\* value divided by 4, truncated toward zero.
C22_TokensAreCharsOverFour ==
    evtFn = "estimate_tokens" =>
        evtOut = Len(to_string(evtIn.value)) \div 4

----------------------------------------------------------------------------
(* Properties of interleaved pushes and flushes *)

\* The text the last operation handed to the markdown renderer.
RenderInput == Concat([i \in 1..Len(renderCalls) |-> renderCalls[i].text])

\* C27: a flush hands the renderer, in at most one call, exactly the fragments
\* pushed since the previous flush, in push order, and leaves nothing pending:
\* no pushed character is lost, rendered twice or carried over to a later flush.
C27_EachPushRenderedByNextFlush ==
    lastOp = "flush" =>
        /\ Len(renderCalls) <= 1
        /\ RenderInput = Concat(flushedFrags)
        /\ text = <<>>
        /\ Concat(frags) = <<>>

\* A flush that rendered two fragments pushed after an earlier flush had
\* emptied the buffer.
C27_Witness ==
    /\ lastOp = "flush"
    /\ flushedFrags = <<<<"a">>, <<SP, "a">>>>
    /\ renderCalls # <<>>
    /\ renderCalls[1].text = <<"a", SP, "a">>
    /\ text = <<>>

----------------------------------------------------------------------------
(* Properties of logging *)

\* The frames of the calls in progress, on all threads.
AllFrames == UNION {{stack[t][i] : i \in 1..Len(stack[t])} : t \in Threads}

LogFrames == {f \in AllFrames : f.fn \in LogFns}

\* The calls the sinks have received from call c, in order.
EntriesOf(c) == SelectSeq(sinkCalls, LAMBDA e : e.call = c)

FrameOf(c) == CHOOSE f \in AllFrames : f.id = c

\* A sink method was entered in this step.
SinkEntered == Len(sinkCalls') > Len(sinkCalls)

\* The flag was enabled, and sink s installed, for the whole of call f.
EnabledWithSink(f, s) == ~f.sawDisabled /\ f.regDuring = {Some(s)}

\* C23: a log_event / log_event_line call made while logging is disabled
\* (disable_logging completed, no enable_logging since) reaches no method of a
\* sink; once enable_logging has completed, a call made with a sink installed
\* reaches it.
C23_DisabledLogsNothing ==
    \A f \in LogFrames :
        /\ ~f.sawEnabled => EntriesOf(f.id) = <<>>
        /\ \A s \in Sinks :
              f.pc = "ret" /\ lastFlagOp = "enable_logging" /\ EnabledWithSink(f, s)
                  => EntriesOf(f.id) # <<>>

\* With sink s1 installed, a call made while disabled is returning with
\* nothing written, and after enable_logging a later call has written.
C23_Witness ==
    \E g \in LogFrames, f \in LogFrames :
        /\ g.id < f.id
        /\ g.pc = "ret" /\ g.sawDisabled /\ g.regDuring = {Some("s1")} /\ EntriesOf(g.id) = <<>>
        /\ lastFlagOp = "enable_logging"
        /\ f.pc = "ret" /\ EnabledWithSink(f, "s1") /\ Len(EntriesOf(f.id)) = 1

\* C24: with logging enabled and a sink installed, log_event(m) calls emit
\* exactly once, with m, and never emit_line; log_event_line(m) calls
\* emit_line exactly once, with m, and never emit.
C24_RoutesToOneMethod ==
    \A f \in LogFrames :
        LET es == EntriesOf(f.id)
        IN  /\ \A i \in 1..Len(es) :
                  /\ es[i].msg = f.arg
                  /\ es[i].method = IF f.fn = "log_event" THEN "emit" ELSE "emit_line"
            /\ \A s \in Sinks :
                  f.pc = "ret" /\ EnabledWithSink(f, s) =>
                      /\ Len(es) = 1
                      /\ es[1].sink = s

\* log_event_line("m2") is returning after one emit_line("m2"), the sink
\* having received an emit from a log_event before.
C24_Witness ==
    \E f \in LogFrames :
        /\ f.fn = "log_event_line" /\ f.arg = "m2" /\ f.pc = "ret"
        /\ EntriesOf(f.id) = <<[sink |-> "s1", method |-> "emit_line", msg |-> "m2", call |-> f.id]>>
        /\ Len(sinkCalls) = 2
        /\ sinkCalls[1].method = "emit" /\ sinkCalls[1].sink = "s1"

\* C25: a log call made after set_output_sink(s) has returned, with no other
\* registry call completed since, is delivered to s and to no other sink; one
\* made after reset_output_sink reaches no sink, and get_output_sink then
\* returns None.
C25_SinkReplaced ==
    \A f \in AllFrames :
        /\ f.fn \in LogFns =>
              /\ \A s \in Sinks :
                    f.regDuring = {Some(s)} =>
                        \A i \in 1..Len(sinkCalls) : sinkCalls[i].call = f.id => sinkCalls[i].sink = s
              /\ f.regDuring = {None} => EntriesOf(f.id) = <<>>
        /\ f.fn = "get_output_sink" /\ f.pc = "ret" =>
              /\ f.regDuring = {None} => f.sink = None
              /\ \A s \in Sinks : f.regDuring = {Some(s)} => f.sink = Some(s)

\* s1 was installed, then replaced by s2; the log call made afterwards is
\* returning with its message delivered to s2, and s1 has received nothing.
C25_Witness ==
    /\ installed = <<Some("s1"), Some("s2")>>
    /\ \E f \in LogFrames :
          /\ f.pc = "ret" /\ f.regDuring = {Some("s2")}
          /\ Len(EntriesOf(f.id)) = 1
    /\ \A i \in 1..Len(sinkCalls) : sinkCalls[i].sink = "s2"

\* A step of the code of log_event / log_event_line on thread t: the call is
\* entered, or its frame, innermost on its thread and not inside the sink,
\* moves on or returns.
LogStepOf(t) ==
    \/ /\ Len(stack'[t]) = Len(stack[t]) + 1
       /\ stack'[t][Len(stack'[t])].fn \in LogFns
    \/ /\ stack[t] # <<>>
       /\ Top(t).fn \in LogFns
       /\ Top(t).pc \in {"read", "unlock", "emit", "ret"}
       /\ \/ Len(stack'[t]) = Len(stack[t]) - 1
          \/ Len(stack'[t]) = Len(stack[t]) /\ stack'[t][Len(stack[t])].pc # Top(t).pc

\* C26: with no sink installed, log_event and log_event_line reach no sink and
\* do not fail, whether logging is enabled or disabled; their steps leave the
\* registry and the flag as they are.
C26_NoSinkIsNoop ==
    /\ [](panic = NoPanic)
    /\ [](\A f \in LogFrames : f.regDuring = {None} => EntriesOf(f.id) = <<>> /\ f.pc # "emit")
    /\ [][\A t \in Threads : LogStepOf(t) => UNCHANGED <<OUTPUT_SINK, LOGGING_DISABLED>>]_vars

\* After a reset, with logging enabled, a log call that read the empty
\* registry is returning; nothing was written.
C26_Witness ==
    /\ installed # <<>>
    /\ Installed = None
    /\ sinkCalls = <<>>
    /\ \E f \in LogFrames :
          /\ f.pc = "ret" /\ ~f.sawDisabled /\ f.regDuring = {None}
    /\ panic = NoPanic

\* C28: a log call reaches at most one sink, at most once, and that sink is
\* one that was installed at some moment of the call: the one before a
\* concurrent set_output_sink / reset_output_sink or the one after it.
C28_AtMostOneSinkOnce ==
    [][SinkEntered =>
          LET e == sinkCalls'[Len(sinkCalls')]
          IN  /\ Len(sinkCalls') = Len(sinkCalls) + 1
              /\ EntriesOf(e.call) = <<>>
              /\ Some(e.sink) \in FrameOf(e.call).regDuring]_vars

\* A log call that overlapped set_output_sink(s2) on the other thread is
\* returning after it delivered its message, once, to the sink s1 it had read.
C28_Witness ==
    \E t \in Threads, u \in Threads :
        /\ t # u
        /\ stack[u] = <<>>
        /\ Len(stack[t]) = 1
        /\ Top(t).fn \in LogFns /\ Top(t).pc = "ret"
        /\ Top(t).regDuring = {Some("s1"), Some("s2")}
        /\ Installed = Some("s2")
        /\ Len(sinkCalls) = 1
        /\ sinkCalls[1].sink = "s1" /\ sinkCalls[1].call = Top(t).id

\* C29: a log call that begins after disable_logging has returned, with no
\* enable_logging since, reaches no sink method, on whatever thread; and
\* is_logging_enabled returns what the enable_logging / disable_logging call
\* completed last has set, true if there was none.
C29_DisableIsObserved ==
    /\ [][SinkEntered => FrameOf(sinkCalls'[Len(sinkCalls')].call).sawEnabled]_vars
    /\ [](isEnabledResult # None => isEnabledResult[1] = (lastFlagOp # "disable_logging"))
    /\ [](is_logging_enabled(LOGGING_DISABLED) = (lastFlagOp # "disable_logging"))

\* One thread has disabled logging and is_logging_enabled returned false; the
\* log call the other thread made afterwards, with a sink installed, is
\* returning and nothing was written.
C29_Witness ==
    /\ lastFlagOp = "disable_logging"
    /\ isEnabledResult = Some(FALSE)
    /\ Installed = Some("s1")
    /\ sinkCalls = <<>>
    /\ \E f \in LogFrames : f.pc = "ret" /\ ~f.sawEnabled /\ f.regDuring = {Some("s1")}

\* Thread t has a logging call in progress.
InCall(t) == stack[t] # <<>>

\* C30: a log call holds no read guard of the registry while the sink method
\* runs, and every logging call returns, including the calls a sink method
\* makes back into the module: there is no deadlock.
C30_NoLockHeldInSink ==
    /\ [](\A t \in Threads :
            InCall(t) /\ Top(t).pc \in {"emit", "in_emit"} => t \notin readers)
    /\ \A t \in Threads : InCall(t) ~> ~InCall(t)

\* A sink's emit has called log_event_line, and that call has reached the
\* sink in turn; no thread holds a guard.
C30_Witness ==
    \E t \in Threads :
        /\ Len(stack[t]) = 2
        /\ stack[t][1].fn = "log_event" /\ stack[t][1].pc = "emit_tail"
        /\ stack[t][2].fn = "log_event_line" /\ stack[t][2].pc = "in_emit"
        /\ Len(sinkCalls) = 2
        /\ readers = {}

============================================================================
